---- MODULE Spec2Model ----
(***************************************************************************)
(* Model of the up-vector scene reorientation of the COLMAP visualizer     *)
(* (examples/04_demos/01_colmap_visualizer.py, plot_cameras.py).           *)
(*                                                                         *)
(* Numbers.  The program computes in IEEE double precision.  The model     *)
(* computes in exact rational arithmetic (arbitrary-precision numerator    *)
(* and denominator), extended with the IEEE special values NaN and +-Inf   *)
(* that a division by zero produces.  Rounding errors of the doubles       *)
(* (about 1e-16 per operation) are NOT modelled; every tolerance the       *)
(* claims speak of (1e-6) and every threshold of the code (np.isclose:     *)
(* 1e-5, 1e-8; 0.9) is many orders of magnitude above them.                *)
(* A square root is only ever taken of a rational that is a perfect        *)
(* square: np.linalg.norm(x) is kept as "the root of x.x", a vector        *)
(* divided by a norm is kept as a rational vector together with the        *)
(* square of its divisor, and the inputs are drawn from vectors of         *)
(* rational length.                                                        *)
(***************************************************************************)
EXTENDS Integers, Sequences, FiniteSets, TLC

(***************************************************************************)
(* Natural numbers of any size: little-endian sequences of limbs in        *)
(* 0..Base-1 without leading zero limbs; <<>> is zero.                     *)
(***************************************************************************)
Base == 10 * 10 * 10

MaxOf(i, j) == IF i >= j THEN i ELSE j

MinOf(i, j) == IF i <= j THEN i ELSE j

Limb(x, i) == IF i <= Len(x) THEN x[i] ELSE 0

RECURSIVE Strip(_)
Strip(x) ==
    IF x = <<>> THEN x
    ELSE IF x[Len(x)] = 0 THEN Strip(SubSeq(x, 1, Len(x) - 1))
    ELSE x

RECURSIVE CarryFrom(_, _, _)
CarryFrom(cols, i, c) ==
    IF i > Len(cols)
    THEN IF c <= 0 THEN <<>> ELSE <<c % Base>> \o CarryFrom(cols, i, c \div Base)
    ELSE LET t == cols[i] + c
         IN <<t % Base>> \o CarryFrom(cols, i + 1, t \div Base)

Carried(cols) == Strip(CarryFrom(cols, 1, 0))

RECURSIVE FromNat(_)
FromNat(n) == IF n = 0 THEN <<>> ELSE <<n % Base>> \o FromNat(n \div Base)

MAdd(x, y) == Carried([i \in 1..MaxOf(Len(x), Len(y)) |-> Limb(x, i) + Limb(y, i)])

\* x - y for x >= y
MSub(x, y) == Carried([i \in 1..MaxOf(Len(x), Len(y)) |-> Limb(x, i) - Limb(y, i)])

RECURSIVE ColSum(_, _, _, _)
ColSum(x, y, k, i) ==
    IF i > MinOf(Len(x), k) THEN 0
    ELSE x[i] * y[k + 1 - i] + ColSum(x, y, k, i + 1)

MMul(x, y) ==
    IF x = <<>> \/ y = <<>> THEN <<>>
    ELSE Carried([k \in 1..(Len(x) + Len(y) - 1) |->
                     ColSum(x, y, k, MaxOf(1, k + 1 - Len(y)))])

RECURSIVE CmpFrom(_, _, _)
CmpFrom(x, y, i) ==
    IF i = 0 THEN 0
    ELSE IF x[i] < y[i] THEN -1
    ELSE IF x[i] > y[i] THEN 1
    ELSE CmpFrom(x, y, i - 1)

\* -1, 0, 1 as x < y, x = y, x > y
MCmp(x, y) ==
    IF Len(x) < Len(y) THEN -1
    ELSE IF Len(x) > Len(y) THEN 1
    ELSE CmpFrom(x, y, Len(x))

\* the largest digit d in lo..hi with (r with limb pos set to d)^2 <= n
RECURSIVE BestDigit(_, _, _, _, _)
BestDigit(n, r, pos, lo, hi) ==
    IF lo = hi THEN lo
    ELSE LET mid == (lo + hi + 1) \div 2
             t == Strip([r EXCEPT ![pos] = mid])
         IN IF MCmp(MMul(t, t), n) <= 0
            THEN BestDigit(n, r, pos, mid, hi)
            ELSE BestDigit(n, r, pos, lo, mid - 1)

RECURSIVE SqrtFrom(_, _, _)
SqrtFrom(n, r, pos) ==
    IF pos = 0 THEN Strip(r)
    ELSE SqrtFrom(n, [r EXCEPT ![pos] = BestDigit(n, r, pos, 0, Base - 1)], pos - 1)

RECURSIVE Zeros(_)
Zeros(len) == IF len = 0 THEN <<>> ELSE <<0>> \o Zeros(len - 1)

\* floor of the square root
MSqrt(n) == SqrtFrom(n, Zeros((Len(n) + 1) \div 2), (Len(n) + 1) \div 2)

\* ... of an integer of the checker, by bisection of lo..hi
RECURSIVE ISqrtIn(_, _, _)
ISqrtIn(i, lo, hi) ==
    IF lo = hi THEN lo
    ELSE LET mid == (lo + hi + 1) \div 2
         IN IF mid * mid <= i THEN ISqrtIn(i, mid, hi) ELSE ISqrtIn(i, lo, mid - 1)

(***************************************************************************)
(* Numbers: rationals s * n / d (s the sign, n and d naturals, d > 0),     *)
(* NaN, and +-Inf.                                                         *)
(***************************************************************************)
Sign(i) == IF i > 0 THEN 1 ELSE IF i < 0 THEN -1 ELSE 0

AbsInt(i) == IF i < 0 THEN -i ELSE i

\* a natural below 2 * 10^6, as an integer of the checker
IsSmall(x) == Len(x) <= 2 \/ (Len(x) = 3 /\ x[3] < 2)

ToInt(x) == Limb(x, 1) + Base * Limb(x, 2) + Base * Base * Limb(x, 3)

RECURSIVE Gcd(_, _)
Gcd(i, j) == IF j = 0 THEN i ELSE Gcd(j, i % j)

\* x mod m for a small m > 0
RECURSIVE ModFrom(_, _, _, _)
ModFrom(x, i, m, r) ==
    IF i = 0 THEN r ELSE ModFrom(x, i - 1, m, (r * Base + x[i]) % m)

\* the limbs of x div m for a small m > 0
RECURSIVE DivFrom(_, _, _, _)
DivFrom(x, i, m, r) ==
    IF i = 0 THEN <<>>
    ELSE LET t == r * Base + x[i]
         IN DivFrom(x, i - 1, m, t % m) \o <<t \div m>>

MDivSmall(x, m) == Strip(DivFrom(x, Len(x), m, 0))

\* s * n / di with the common factor g taken out
Lowest(s, n, di, g) ==
    [k |-> "fin", s |-> s, n |-> MDivSmall(n, g), d |-> FromNat(di \div g)]

\* s * n / d, in lowest terms when d is small
Fin(s, n, d) ==
    IF n = <<>> \/ s = 0
    THEN [k |-> "fin", s |-> 0, n |-> <<>>, d |-> <<1>>]
    ELSE IF n = d THEN [k |-> "fin", s |-> s, n |-> <<1>>, d |-> <<1>>]
    ELSE IF IsSmall(d)
         THEN Lowest(s, n, ToInt(d), Gcd(ToInt(d), ModFrom(n, Len(n), ToInt(d), 0)))
    ELSE [k |-> "fin", s |-> s, n |-> n, d |-> d]

\* floor of the square root of a natural
NatSqrt(n) ==
    IF Len(n) <= 3 THEN FromNat(ISqrtIn(ToInt(n), 0, 31622)) ELSE MSqrt(n)

NaN == [k |-> "nan", s |-> 0, n |-> <<>>, d |-> <<>>]

Inf(s) == [k |-> "inf", s |-> s, n |-> <<>>, d |-> <<>>]

RInt(i) == Fin(Sign(i), FromNat(AbsInt(i)), <<1>>)

RFrac(p, q) == Fin(Sign(p), FromNat(AbsInt(p)), FromNat(q))

IsNaN(x) == x.k = "nan"

IsFinite(x) == x.k = "fin"

RNeg(x) == [x EXCEPT !.s = -x.s]

RAbs(x) == [x EXCEPT !.s = AbsInt(x.s)]

\* the sign and the magnitude of s1*n1 + s2*n2
SignedSum(s1, n1, s2, n2) ==
    IF s1 = 0 THEN [s |-> s2, n |-> n2]
    ELSE IF s2 = 0 THEN [s |-> s1, n |-> n1]
    ELSE IF s1 = s2 THEN [s |-> s1, n |-> MAdd(n1, n2)]
    ELSE LET c == MCmp(n1, n2)
         IN IF c = 0 THEN [s |-> 0, n |-> <<>>]
            ELSE IF c > 0 THEN [s |-> s1, n |-> MSub(n1, n2)]
            ELSE [s |-> s2, n |-> MSub(n2, n1)]

\* s1 * n1 / d + s2 * n2 / d
SumOver(s1, n1, s2, n2, d) ==
    LET sum == SignedSum(s1, n1, s2, n2)
    IN Fin(sum.s, sum.n, d)

\* the sum of finite x and y over the denominator x.d * xd = y.d * yd
SumWith(x, y, xd, yd) == SumOver(x.s, MMul(x.n, xd), y.s, MMul(y.n, yd), MMul(x.d, xd))

\* the common factor of the denominators d and e when both are small, or 1
Common(d, e) ==
    IF IsSmall(d) /\ IsSmall(e) THEN FromNat(Gcd(ToInt(d), ToInt(e))) ELSE <<1>>

\* d with the factor g taken out, g being 1 or d being small
Without(d, g) == IF g = <<1>> THEN d ELSE FromNat(ToInt(d) \div ToInt(g))

RAdd(x, y) ==
    IF IsNaN(x) \/ IsNaN(y) THEN NaN
    ELSE IF x.k = "inf" /\ y.k = "inf" THEN (IF x.s = y.s THEN x ELSE NaN)
    ELSE IF x.k = "inf" THEN x
    ELSE IF y.k = "inf" THEN y
    ELSE IF x.d = y.d THEN SumOver(x.s, x.n, y.s, y.n, x.d)
    ELSE SumWith(x, y, Without(y.d, Common(x.d, y.d)), Without(x.d, Common(x.d, y.d)))

RSub(x, y) == RAdd(x, RNeg(y))

RMul(x, y) ==
    IF IsNaN(x) \/ IsNaN(y) THEN NaN
    ELSE IF x.k = "inf" \/ y.k = "inf"
         THEN (IF x.s * y.s = 0 THEN NaN ELSE Inf(x.s * y.s))
    ELSE Fin(x.s * y.s, MMul(x.n, y.n), MMul(x.d, y.d))

\* IEEE division: 0/0 is NaN, x/0 is +-Inf (the model has one zero, taken as +0)
RDiv(x, y) ==
    IF IsNaN(x) \/ IsNaN(y) THEN NaN
    ELSE IF x.k = "inf"
         THEN (IF y.k = "inf" THEN NaN ELSE Inf(IF y.s < 0 THEN -x.s ELSE x.s))
    ELSE IF y.k = "inf" THEN Fin(0, <<>>, <<1>>)
    ELSE IF y.s = 0 THEN (IF x.s = 0 THEN NaN ELSE Inf(x.s))
    ELSE Fin(x.s * y.s, MMul(x.n, y.d), MMul(x.d, y.n))

\* sign of x - y for x, y not NaN
RCmp(x, y) ==
    IF x.k = "inf" \/ y.k = "inf"
    THEN Sign((IF x.k = "inf" THEN 2 * x.s ELSE x.s)
              - (IF y.k = "inf" THEN 2 * y.s ELSE y.s))
    ELSE IF x.s # y.s THEN Sign(x.s - y.s)
    ELSE IF x.s = 0 THEN 0
    ELSE x.s * MCmp(MMul(x.n, y.d), MMul(y.n, x.d))

\* comparisons are false when an operand is NaN, as in IEEE
RLt(x, y) == ~IsNaN(x) /\ ~IsNaN(y) /\ RCmp(x, y) < 0

RLe(x, y) == ~IsNaN(x) /\ ~IsNaN(y) /\ RCmp(x, y) <= 0

REq(x, y) == ~IsNaN(x) /\ ~IsNaN(y) /\ RCmp(x, y) = 0

\* whether the non-negative rational x is the square of a rational
IsRatSquare(x) ==
    IsFinite(x) /\ x.s >= 0 /\
    LET nd == MMul(x.n, x.d)
        r == NatSqrt(nd)
    IN MMul(r, r) = nd

\* the square root of a rational square: sqrt(n/d) = sqrt(n*d)/d
RSqrt(x) ==
    IF IsNaN(x) THEN NaN
    ELSE IF x.k = "inf" THEN (IF x.s > 0 THEN x ELSE NaN)
    ELSE IF x.s < 0 THEN NaN
    ELSE IF x.n = x.d THEN x
    ELSE Fin(x.s, NatSqrt(MMul(x.n, x.d)), x.d)

(***************************************************************************)
(* Vectors and matrices.  A vector [v, k] stands for v / sqrt(k): v a      *)
(* triple of numbers, k a positive rational (1 for a vector given by its   *)
(* components).  A matrix is a triple of rows of numbers.                  *)
(***************************************************************************)
Zero == [k |-> "fin", s |-> 0, n |-> <<>>, d |-> <<1>>]

One == [k |-> "fin", s |-> 1, n |-> <<1>>, d |-> <<1>>]

Idx == 1..3

Vec(x, y, z) == [v |-> <<x, y, z>>, k |-> One]

\* the triple of a function on Idx
Triple(f) == <<f[1], f[2], f[3]>>

IntVec(t) == [v |-> Triple([i \in Idx |-> RInt(t[i])]), k |-> One]

NaNVec == [v |-> <<NaN, NaN, NaN>>, k |-> One]

HasNaN(x) == \E i \in Idx : IsNaN(x.v[i])

\* x[i]
Comp(x, i) == IF x.k.n = x.k.d THEN x.v[i] ELSE RDiv(x.v[i], RSqrt(x.k))

\* x by its components
Plain(x) ==
    IF x.k.n = x.k.d THEN x
    ELSE [v |-> Triple([i \in Idx |-> Comp(x, i)]), k |-> One]

DotV(p, q) == RAdd(RAdd(RMul(p[1], q[1]), RMul(p[2], q[2])), RMul(p[3], q[3]))

\* the index after i, cyclically
Nxt(i) == (i % 3) + 1

CrossV(p, q) ==
    Triple([i \in Idx |->
              RSub(RMul(p[Nxt(i)], q[Nxt(Nxt(i))]), RMul(p[Nxt(Nxt(i))], q[Nxt(i)]))])

\* np.dot(x, y)
Dot(x, y) == RDiv(DotV(x.v, y.v), RSqrt(RMul(x.k, y.k)))

\* np.cross(x, y)
Cross(x, y) == [v |-> CrossV(x.v, y.v), k |-> RMul(x.k, y.k)]

\* np.linalg.norm(x), kept as its square: the norm is the root of .sq
Norm(x) == [sq |-> RDiv(DotV(x.v, x.v), x.k)]

\* s**2 for a norm s
Pow2(s) == s.sq

\* x / s for a norm s: componentwise IEEE division (0/0 is NaN, c/0 is +-Inf)
VDivNorm(x, s) ==
    IF IsNaN(s.sq) \/ HasNaN(x) THEN NaNVec
    ELSE IF s.sq.s = 0
         THEN [v |-> Triple([i \in Idx |-> RDiv(x.v[i], Zero)]), k |-> One]
    ELSE [v |-> x.v, k |-> RMul(x.k, s.sq)]

\* x / np.linalg.norm(x)
Normalized(x) == VDivNorm(x, Norm(x))

\* p + f * q for triples p and q
Combined(p, q, f) == Triple([i \in Idx |-> RAdd(p[i], RMul(f, q[i]))])

VAdd(x, y) == [v |-> Combined(Plain(x).v, Plain(y).v, One), k |-> One]

VSub(x, y) == [v |-> Combined(Plain(x).v, Plain(y).v, RNeg(One)), k |-> One]

VScale(x, c) == [v |-> Triple([i \in Idx |-> RMul(x.v[i], c)]), k |-> x.k]

Eye == << <<One, Zero, Zero>>, <<Zero, One, Zero>>, <<Zero, Zero, One>> >>

MatAdd(A, B) == [i \in Idx |-> [j \in Idx |-> RAdd(A[i][j], B[i][j])]]

MatScale(A, c) == [i \in Idx |-> [j \in Idx |-> RMul(A[i][j], c)]]

Transpose(A) == [i \in Idx |-> [j \in Idx |-> A[j][i]]]

MatMul(A, B) == [i \in Idx |-> [j \in Idx |-> DotV(A[i], Transpose(B)[j])]]

\* A @ p for a triple p
Rows(A, p) == Triple([i \in Idx |-> DotV(A[i], p)])

\* A @ x
MatVec(A, x) == [v |-> Rows(A, Plain(x).v), k |-> One]

\* the products p[i] * q[j], each over r
OuterOver(p, q, r) == [i \in Idx |-> [j \in Idx |-> RDiv(RMul(p[i], q[j]), r)]]

\* np.outer(x, y)
Outer(x, y) == OuterOver(x.v, y.v, RSqrt(RMul(x.k, y.k)))

\* the determinant, as the triple product of the rows
Det(A) == DotV(A[1], CrossV(A[2], A[3]))

\* the cross-product matrix of the triple p
SkewOf(p) ==
    << <<Zero, RNeg(p[3]), p[2]>>,
       <<p[3], Zero, RNeg(p[1])>>,
       <<RNeg(p[2]), p[1], Zero>> >>

\* the cross-product matrix of v
Skew(v) == SkewOf(Plain(v).v)

(***************************************************************************)
(* rot_from_a_to_b                                                         *)
(***************************************************************************)
\* np.isclose(x, y) with numpy's default rtol = 1e-5 and atol = 1e-8:
\* |x - y| <= atol + rtol * |y|, false for NaN
isclose(x, y) ==
    RLe(RAbs(RSub(x, y)),
        RAdd(RFrac(1, 100000000), RMul(RFrac(1, 100000), RAbs(y))))

\* a variant of tmp_of: the helper vector is the x axis whatever a is
tmp_fixed(a) == Vec(One, Zero, Zero)

\* a variant of tmp_of: the two helper vectors change places
tmp_swapped(a) ==
    IF RLt(RAbs(Comp(a, 1)), RFrac(9, 10))
    THEN Vec(Zero, One, Zero)
    ELSE Vec(One, Zero, Zero)

\* the helper vector of the opposite branch
tmp_of(a) ==
    IF RLt(RAbs(Comp(a, 1)), RFrac(9, 10))
    THEN Vec(One, Zero, Zero)
    ELSE Vec(Zero, One, Zero)

\* the opposite branch's axis before normalization
axis_raw(a) == Cross(a, tmp_of(a))

\* -np.eye(3) + 2*np.outer(axis, axis)
HalfTurn(axis) ==
    MatAdd(MatScale(Eye, RInt(-1)), MatScale(Outer(axis, axis), RInt(2)))

\* a variant of rot_opposite: np.eye(3) - 2*np.outer(axis, axis), the mirror
\* image in the plane across the axis
rot_opposite_mirror(a) ==
    MatAdd(Eye, MatScale(Outer(Normalized(axis_raw(a)), Normalized(axis_raw(a))), RInt(-2)))

\* the opposite branch
rot_opposite(a) == HalfTurn(Normalized(axis_raw(a)))

\* np.eye(3) + K + K @ K * f
Rodrigues(K, f) == MatAdd(MatAdd(Eye, K), MatScale(MatMul(K, K), f))

\* the general branch, with f = (1 - c) / (s**2) for s = np.linalg.norm(v)
rot_general(v, c) == Rodrigues(Skew(v), RDiv(RSub(One, c), Pow2(Norm(v))))

\* the branch taken for the dot product c
BranchOf(c) ==
    IF isclose(c, One) THEN "aligned"
    ELSE IF isclose(c, RInt(-1)) THEN "opposite"
    ELSE "general"

\* the branch rot_from_a_to_b takes
rot_branch(a0, b0) == BranchOf(Dot(Normalized(a0), Normalized(b0)))

\* a variant of rot_of_dot: without the test for aligned vectors
rot_of_dot_unguarded(a, b, c) ==
    IF isclose(c, RInt(-1)) THEN rot_opposite(a)
    ELSE rot_general(Cross(a, b), c)

\* rot_from_a_to_b from the dot product on: a and b are unit vectors, c = a . b
rot_of_dot(a, b, c) ==
    IF isclose(c, One) THEN Eye
    ELSE IF isclose(c, RInt(-1)) THEN rot_opposite(a)
    ELSE rot_general(Cross(a, b), c)

\* rot_from_a_to_b after the normalization of its arguments
rot_of_units(a, b) == rot_of_dot(a, b, Dot(a, b))

rot_from_a_to_b(a0, b0) == rot_of_units(Normalized(a0), Normalized(b0))

(***************************************************************************)
(* State.                                                                  *)
(*   rot_*   one call of rot_from_a_to_b: its arguments, where it is, and  *)
(*           the matrix returned.                                          *)
(*   the rest is main() of 01_colmap_visualizer.py:                        *)
(*   images, points3d, reorient_scene   what was loaded, and the flag      *)
(*   pc            where the main thread is: "start" before the set-up,    *)
(*                 then the loop: "test", "clear", and visualize_frames:   *)
(*                 "remove", "select", "add"                               *)
(*   R_align, scene_center, points, colors   the locals of those names     *)
(*   gui_points, gui_frames, gui_point_size  the sliders' values           *)
(*   point_cloud   the handle's points, colors and point_size              *)
(*   frames        the list of frame handles                               *)
(*   img_ids       visualize_frames' local of that name                    *)
(*   need_update   the flag of that name                                   *)
(*   runs          the number of completed runs of visualize_frames        *)
(*   camera        the one client's camera                                 *)
(*   cb_pc, cb_mask   where the gui_points.on_update callback is ("idle",  *)
(*                 "masked", "points_set", "colors_set") and its local     *)
(*                 point_mask                                              *)
(*   client_cloud  the point cloud as the client has been told of it       *)
(*   scene         the frame handles that are in the scene                 *)
(*   unread        a Max frames update has come that no run of             *)
(*                 visualize_frames has read the slider after              *)
(* An image's qvec is kept as the rotation matrix SO3(qvec) stands for, a  *)
(* frame's wxyz as the matrix it was made from, a point size in            *)
(* thousandths.                                                            *)
(***************************************************************************)
VARIABLES rot_a, rot_b, rot_pc, rot_R,
          images, points3d, reorient_scene, pc,
          R_align, scene_center, points, colors,
          gui_points, gui_frames, gui_point_size,
          point_cloud, frames, img_ids, need_update, runs, camera,
          cb_pc, cb_mask, client_cloud, scene, unread

rot_vars == <<rot_a, rot_b, rot_pc, rot_R>>

scene_vars == <<images, points3d, reorient_scene>>

align_vars == <<R_align, scene_center, points, colors>>

gui_vars == <<gui_points, gui_frames, gui_point_size>>

cb_vars == <<cb_pc, cb_mask>>

\* what the callbacks and visualize_frames keep beside the locals of main()
side_vars == <<cb_vars, client_cloud, scene, unread>>

main_vars ==
    <<scene_vars, pc, align_vars, gui_vars, point_cloud, frames, img_ids,
      need_update, runs, camera, side_vars>>

vars == <<rot_vars, main_vars>>

(***************************************************************************)
(* The calls of rot_from_a_to_b: the arguments are integer vectors of      *)
(* integer length (the zero vector among them), and vectors a small angle  *)
(* away from +-Z.                                                          *)
(***************************************************************************)
MaxCoord == 2

Coords == (0 - MaxCoord)..MaxCoord

SqNorm(t) == t[1] * t[1] + t[2] * t[2] + t[3] * t[3]

GridVectors ==
    {t \in Coords \X Coords \X Coords : IsRatSquare(RInt(SqNorm(t)))}

\* (2t, 0, 1 - t^2) * n^2 for t = 1/n has length n^2 + 1 and is at the angle
\* 2 atan(1/n) from +Z: n = 500: 1 - cos = 8.0e-6, n = 400: 1.25e-5,
\* n = 5000: 8.0e-8
NearZ == { <<1000, 0, 249999>>, <<800, 0, 159999>>, <<10000, 0, 24999999>> }

Slanted == { <<12, 3, 4>>, <<2, 3, 6>> }

Negated(S) == {<<0 - t[1], 0 - t[2], 0 - t[3]>> : t \in S}

PlainInputs == GridVectors \cup Slanted \cup Negated(Slanted)

NearInputs == NearZ \cup Negated(NearZ)

\* the partners of the near-Z vectors: +-Z, one slanted vector, each other
NearPartners == { <<0, 0, 1>>, <<0, 0, -1>>, <<1, 2, 2>> } \cup NearInputs

RotPairs ==
    (PlainInputs \X PlainInputs)
        \cup (NearInputs \X NearPartners) \cup (NearPartners \X NearInputs)

\* no call of rot_from_a_to_b is being followed
RotIdle ==
    /\ rot_a = IntVec(<<0, 0, 0>>)
    /\ rot_b = IntVec(<<0, 0, 0>>)
    /\ rot_pc = "idle"
    /\ rot_R = Eye

\* R = rot_from_a_to_b(a, b): the function has no raise and no early exit
\* other than its three returns
rot_call ==
    /\ rot_pc = "call"
    /\ rot_R' = rot_from_a_to_b(rot_a, rot_b)
    /\ rot_pc' = "returned"
    /\ UNCHANGED <<rot_a, rot_b, main_vars>>

(***************************************************************************)
(* main(): the set-up                                                      *)
(***************************************************************************)
cam_local_up == IntVec(<<0, -1, 0>>)

target_up == IntVec(<<0, 0, 1>>)

ZeroVec == IntVec(<<0, 0, 0>>)

\* vtf.SO3(qvec).inverse(): the inverse of a rotation is its transpose
SO3Inverse(R) == Transpose(R)

\* vtf.SE3.from_rotation_and_translation(R, t).inverse(): (R^T, -R^T t)
SE3Inverse(R, t) ==
    [R |-> Transpose(R), t |-> VScale(MatVec(Transpose(R), t), RInt(-1))]

RECURSIVE VSum(_, _)
VSum(xs, i) == IF i = 0 THEN ZeroVec ELSE VAdd(VSum(xs, i - 1), xs[i])

\* xs.mean(axis=0)
Mean(xs) == VScale(VSum(xs, Len(xs)), RDiv(One, RInt(Len(xs))))

world_up_samples(imgs) ==
    [i \in 1..Len(imgs) |-> MatVec(SO3Inverse(imgs[i].R), cam_local_up)]

\* average_up after "average_up /= np.linalg.norm(average_up)"
average_up_of(imgs) == Normalized(Mean(world_up_samples(imgs)))

cam_positions(imgs) ==
    [i \in 1..Len(imgs) |-> SE3Inverse(imgs[i].R, imgs[i].tvec).t]

scene_center_of(imgs) == Mean(cam_positions(imgs))

\* the R_align and scene_center of the set-up
R_align_of(imgs, reorient) ==
    IF reorient THEN rot_from_a_to_b(average_up_of(imgs), target_up) ELSE Eye

\* a variant of center_of: the centre is computed whatever reorient_scene is
center_of_always(imgs, reorient) == scene_center_of(imgs)

center_of(imgs, reorient) ==
    IF reorient THEN scene_center_of(imgs) ELSE ZeroVec

\* points = (R_align @ (pts_np - scene_center).T).T, or the points as read
points_of(pts, reorient, R, center) ==
    [i \in 1..Len(pts) |->
        IF reorient THEN MatVec(R, VSub(pts[i].xyz, center)) ELSE pts[i].xyz]

\* a variant of apply_RT: the translation is rotated but not centred
apply_RT_uncentred(reorient, R_al, center, R, t) ==
    IF reorient
    THEN [R |-> MatMul(R_al, R), t |-> MatVec(R_al, t)]
    ELSE [R |-> R, t |-> t]

\* apply_RT(R, t), either definition
apply_RT(reorient, R_al, center, R, t) ==
    IF reorient
    THEN [R |-> MatMul(R_al, R), t |-> MatVec(R_al, VSub(t, center))]
    ELSE [R |-> R, t |-> t]

\* np.random.choice(n, k, replace=False): k distinct indices in any order
Choices(n, k) ==
    {s \in [1..k -> 1..n] : \A i \in 1..k : \A j \in 1..k : s[i] = s[j] => i = j}

\* xs[mask]
Take(xs, mask) == [i \in 1..Len(mask) |-> xs[mask[i]]]

\* the initial values of the Max points and Max frames sliders
InitialMaxPoints == 50000

InitialMaxFrames == 50

InitialPointSize == 20

InitialCamera == [wxyz |-> Eye, position |-> ZeroVec, up_direction |-> target_up]

\* lines 78-170 and 240: everything before the loop
load ==
    /\ pc = "start"
    /\ R_align' = R_align_of(images, reorient_scene)
    /\ scene_center' = center_of(images, reorient_scene)
    /\ points' = points_of(points3d, reorient_scene, R_align', scene_center')
    /\ colors' = [i \in 1..Len(points3d) |-> points3d[i].rgb]
    /\ gui_points' = MinOf(Len(points3d), InitialMaxPoints)
    /\ gui_frames' = MinOf(Len(images), InitialMaxFrames)
    /\ gui_point_size' = InitialPointSize
    /\ \E point_mask \in Choices(Len(points3d), gui_points') :
          point_cloud' = [points |-> Take(points', point_mask),
                          colors |-> Take(colors', point_mask),
                          point_size |-> gui_point_size']
    /\ client_cloud' = point_cloud'
    /\ frames' = <<>>
    /\ need_update' = TRUE
    /\ pc' = "test"
    /\ UNCHANGED <<rot_vars, scene_vars, img_ids, runs, camera, cb_vars, scene,
                   unread>>

(***************************************************************************)
(* main(): the callbacks and the loop                                      *)
(***************************************************************************)
\* the values the Point size slider takes here, in thousandths
PointSizes == {20, 100}

\* at most this many runs of visualize_frames are followed
MaxRuns == 2

\* the client is told of the points and the colors of the handle
Told(client, cloud) ==
    [client EXCEPT !.points = cloud.points, !.colors = cloud.colors]

\* gui_points.on_update, from the slider's new value to the end of the
\* callback
gui_points_update ==
    /\ pc # "start"
    /\ cb_pc = "idle"
    /\ \E value \in 1..Len(points3d) :
          /\ gui_points' = value
          /\ \E point_mask \in Choices(Len(points), value) :
                point_cloud' = [point_cloud EXCEPT
                                   !.points = Take(points, point_mask),
                                   !.colors = Take(colors, point_mask)]
    /\ client_cloud' = Told(client_cloud, point_cloud')
    /\ UNCHANGED <<rot_vars, scene_vars, pc, align_vars, gui_frames,
                   gui_point_size, frames, img_ids, need_update, runs, camera,
                   cb_vars, scene, unread>>

(***************************************************************************)
(* gui_points.on_update step by step.  Inside "with server.atomic()" what  *)
(* is assigned to the handle is held back, and the client is told of all   *)
(* of it on leaving the block.                                             *)
(***************************************************************************)
\* line 244: the slider has its new value and point_mask is drawn
cb_mask_drawn ==
    /\ pc # "start"
    /\ cb_pc = "idle"
    /\ \E value \in 1..Len(points3d) :
          /\ gui_points' = value
          /\ cb_mask' \in Choices(Len(points), value)
    /\ cb_pc' = "masked"
    /\ UNCHANGED <<rot_vars, scene_vars, pc, align_vars, gui_frames,
                   gui_point_size, point_cloud, frames, img_ids, need_update,
                   runs, camera, client_cloud, scene, unread>>

\* a variant of cb_points_set: without the atomic block, the client is told
\* of the points at once
cb_points_set_unheld ==
    /\ cb_pc = "masked"
    /\ point_cloud' = [point_cloud EXCEPT !.points = Take(points, cb_mask)]
    /\ client_cloud' = [client_cloud EXCEPT !.points = Take(points, cb_mask)]
    /\ cb_pc' = "points_set"
    /\ UNCHANGED <<rot_vars, scene_vars, pc, align_vars, gui_vars, frames,
                   img_ids, need_update, runs, camera, cb_mask, scene, unread>>

\* line 246: point_cloud.points = points[point_mask]
cb_points_set ==
    /\ cb_pc = "masked"
    /\ point_cloud' = [point_cloud EXCEPT !.points = Take(points, cb_mask)]
    /\ cb_pc' = "points_set"
    /\ UNCHANGED <<rot_vars, scene_vars, pc, align_vars, gui_vars, frames,
                   img_ids, need_update, runs, camera, cb_mask, client_cloud,
                   scene, unread>>

\* line 247: point_cloud.colors = colors[point_mask]
cb_colors_set ==
    /\ cb_pc = "points_set"
    /\ point_cloud' = [point_cloud EXCEPT !.colors = Take(colors, cb_mask)]
    /\ cb_pc' = "colors_set"
    /\ UNCHANGED <<rot_vars, scene_vars, pc, align_vars, gui_vars, frames,
                   img_ids, need_update, runs, camera, cb_mask, client_cloud,
                   scene, unread>>

\* the end of the with block, and of the callback
cb_atomic_exit ==
    /\ cb_pc = "colors_set"
    /\ client_cloud' = Told(client_cloud, point_cloud)
    /\ cb_pc' = "idle"
    /\ cb_mask' = <<>>
    /\ UNCHANGED <<rot_vars, scene_vars, pc, align_vars, gui_vars, point_cloud,
                   frames, img_ids, need_update, runs, camera, scene, unread>>

\* gui_frames.on_update
gui_frames_update ==
    /\ pc # "start"
    /\ \E value \in 1..Len(images) : gui_frames' = value
    /\ need_update' = TRUE
    /\ unread' = TRUE
    /\ UNCHANGED <<rot_vars, scene_vars, pc, align_vars, gui_points,
                   gui_point_size, point_cloud, frames, img_ids, runs, camera,
                   cb_vars, client_cloud, scene>>

\* gui_point_size.on_update
gui_point_size_update ==
    /\ pc # "start"
    /\ \E value \in PointSizes :
          /\ gui_point_size' = value
          /\ point_cloud' = [point_cloud EXCEPT !.point_size = value]
          /\ client_cloud' = [client_cloud EXCEPT !.point_size = value]
    /\ UNCHANGED <<rot_vars, scene_vars, pc, align_vars, gui_points,
                   gui_frames, frames, img_ids, need_update, runs, camera,
                   cb_vars, scene, unread>>

\* gui_reset_up.on_click: up_direction = SO3(camera.wxyz) @ (0, -1, 0)
reset_up_click ==
    /\ pc # "start"
    /\ camera' = [camera EXCEPT !.up_direction = MatVec(camera.wxyz, cam_local_up)]
    /\ UNCHANGED <<rot_vars, scene_vars, pc, align_vars, gui_vars,
                   point_cloud, frames, img_ids, need_update, runs, side_vars>>

\* frustum.on_click of a frame in the scene
frustum_click ==
    /\ pc # "start"
    /\ \E i \in 1..Len(frames) :
          camera' = [camera EXCEPT !.wxyz = frames[i].wxyz,
                                   !.position = frames[i].position]
    /\ UNCHANGED <<rot_vars, scene_vars, pc, align_vars, gui_vars,
                   point_cloud, frames, img_ids, need_update, runs, side_vars>>

\* "if need_update:" found true
loop_test ==
    /\ pc = "test"
    /\ need_update
    /\ runs < MaxRuns
    /\ pc' = "clear"
    /\ UNCHANGED <<rot_vars, scene_vars, align_vars, gui_vars, point_cloud,
                   frames, img_ids, need_update, runs, camera, side_vars>>

\* "need_update = False"
loop_clear ==
    /\ pc = "clear"
    /\ need_update' = FALSE
    /\ pc' = "remove"
    /\ UNCHANGED <<rot_vars, scene_vars, align_vars, gui_vars, point_cloud,
                   frames, img_ids, runs, camera, side_vars>>

\* the image ids of the handles of fs: a frame's name is
\* "/colmap/frame_{img_id}"
Named(fs) == {fs[i].img_id : i \in 1..Len(fs)}

\* the scene sc after frame.remove() for every frame of fs
SceneLess(sc, fs) == {h \in sc : h.img_id \notin Named(fs)}

\* the scene sc after add_frame for every frame of fs: a frame added under
\* a name that is in the scene takes its place
SceneWith(sc, fs) == SceneLess(sc, fs) \cup {fs[i] : i \in 1..Len(fs)}

\* a variant of viz_remove: the list is cleared, the frames stay in the scene
viz_remove_list_only ==
    /\ pc = "remove"
    /\ frames' = <<>>
    /\ pc' = "select"
    /\ UNCHANGED <<rot_vars, scene_vars, align_vars, gui_vars, point_cloud,
                   img_ids, need_update, runs, camera, side_vars>>

\* visualize_frames: the frames are removed and the list is cleared
viz_remove ==
    /\ pc = "remove"
    /\ scene' = SceneLess(scene, frames)
    /\ frames' = <<>>
    /\ pc' = "select"
    /\ UNCHANGED <<rot_vars, scene_vars, align_vars, gui_vars, point_cloud,
                   img_ids, need_update, runs, camera, cb_vars, client_cloud,
                   unread>>

RECURSIVE Sorted(_)
Sorted(S) ==
    IF S = {} THEN <<>>
    ELSE LET m == CHOOSE x \in S : \A y \in S : x <= y
         IN <<m>> \o Sorted(S \ {m})

\* visualize_frames: img_ids = sorted(shuffled ids[: gui_frames.value])
viz_select ==
    /\ pc = "select"
    /\ \E S \in SUBSET {images[i].id : i \in 1..Len(images)} :
          /\ Cardinality(S) = MinOf(gui_frames, Len(images))
          /\ img_ids' = Sorted(S)
    /\ unread' = FALSE
    /\ pc' = "add"
    /\ UNCHANGED <<rot_vars, scene_vars, align_vars, gui_vars, point_cloud,
                   frames, need_update, runs, camera, cb_vars, client_cloud,
                   scene>>

ImageOfId(id) == images[CHOOSE i \in 1..Len(images) : images[i].id = id]

\* the frame handle visualize_frames adds for image img in run number run
Handle(img_id, pose, run) ==
    [img_id |-> img_id, wxyz |-> pose.R, position |-> pose.t, run |-> run]

\* apply_RT(T_world_camera.rotation().as_matrix(), T_world_camera.translation())
apply_RT_to(T_world_camera) ==
    apply_RT(reorient_scene, R_align, scene_center, T_world_camera.R, T_world_camera.t)

FrameOf(img, run) == Handle(img.id, apply_RT_to(SE3Inverse(img.R, img.tvec)), run)

\* the frames of the images of ids that exist on disk, in the order of ids
FramesFrom(ids, run) ==
    LET kept == SelectSeq(ids, LAMBDA id : ImageOfId(id).exists)
    IN [i \in 1..Len(kept) |-> FrameOf(ImageOfId(kept[i]), run)]

\* a variant of viz_add: the run also moves the scene centre to the origin
viz_add_recentring ==
    /\ pc = "add"
    /\ frames' = FramesFrom(img_ids, runs + 1)
    /\ runs' = runs + 1
    /\ img_ids' = <<>>
    /\ pc' = "test"
    /\ scene_center' = ZeroVec
    /\ scene' = SceneWith(scene, frames')
    /\ UNCHANGED <<rot_vars, scene_vars, R_align, points, colors, gui_vars,
                   point_cloud, need_update, camera, cb_vars, client_cloud,
                   unread>>

\* a variant of viz_add: need_update is cleared after the run, not before it
viz_add_clearing ==
    /\ pc = "add"
    /\ frames' = FramesFrom(img_ids, runs + 1)
    /\ runs' = runs + 1
    /\ img_ids' = <<>>
    /\ pc' = "test"
    /\ scene' = SceneWith(scene, frames')
    /\ need_update' = FALSE
    /\ UNCHANGED <<rot_vars, scene_vars, align_vars, gui_vars, point_cloud,
                   camera, cb_vars, client_cloud, unread>>

\* visualize_frames: the loop over img_ids, to the return
viz_add ==
    /\ pc = "add"
    /\ frames' = FramesFrom(img_ids, runs + 1)
    /\ runs' = runs + 1
    /\ img_ids' = <<>>
    /\ pc' = "test"
    /\ scene' = SceneWith(scene, frames')
    /\ UNCHANGED <<rot_vars, scene_vars, align_vars, gui_vars, point_cloud,
                   need_update, camera, cb_vars, client_cloud, unread>>

(***************************************************************************)
(* The scenes.  A camera is given by its camera-to-world rotation; the     *)
(* image holds the inverse, as COLMAP does.  The world-space up vectors of *)
(* the rotations below are +Z, -Z, -Y, +X, -X, (1,-2,-2)/3, and the two    *)
(* vectors at the angle 2 atan(1/500) from +Z and from -Z.                 *)
(***************************************************************************)
MatOf(rows, den) == [i \in Idx |-> [j \in Idx |-> RFrac(rows[i][j], den)]]

CamToWorld ==
    << MatOf(<< <<1, 0, 0>>, <<0, 0, 1>>, <<0, -1, 0>> >>, 1),
       MatOf(<< <<1, 0, 0>>, <<0, 0, -1>>, <<0, 1, 0>> >>, 1),
       MatOf(<< <<1, 0, 0>>, <<0, 1, 0>>, <<0, 0, 1>> >>, 1),
       MatOf(<< <<0, -1, 0>>, <<1, 0, 0>>, <<0, 0, 1>> >>, 1),
       MatOf(<< <<0, 1, 0>>, <<-1, 0, 0>>, <<0, 0, 1>> >>, 1),
       MatOf(<< <<2, -1, 2>>, <<2, 2, -1>>, <<-1, 2, 2>> >>, 3),
       MatOf(<< <<249999, -1000, 0>>, <<0, 0, 250001>>, <<-1000, -249999, 0>> >>, 250001),
       MatOf(<< <<249999, 1000, 0>>, <<0, 0, -250001>>, <<-1000, 249999, 0>> >>, 250001) >>

TvecOf(i) == IntVec(<<i, 2 * i - 3, 1 - i>>)

\* the images of a scene: rots[i] chooses the rotation of the i-th image,
\* the image at position missing (if any) has no file on disk
ImagesOf(rots, missing) ==
    [i \in 1..Len(rots) |->
        [id |-> Len(rots) + 1 - i,
         R |-> Transpose(CamToWorld[rots[i]]),
         tvec |-> TvecOf(i),
         exists |-> i # missing]]

PointsOf(n) ==
    [i \in 1..n |-> [xyz |-> IntVec(<<i, i * i - 2, 3 - 2 * i>>), rgb |-> <<40 * i, 255 - i, i>>]]

\* the average of the up vectors has a rational length (zero included)
RationalUps(imgs) == IsRatSquare(Norm(Mean(world_up_samples(imgs))).sq)

RotSeqs(n, choice) ==
    {s \in [1..n -> choice] :
        /\ \A i \in 1..(n - 1) : s[i] <= s[i + 1]
        /\ RationalUps(ImagesOf(s, 0))}

MaxImages == 3

\* the number of images of the scenes the loop is followed on
SceneImages == 2

NumPoints == 2

\* before the set-up
MainStart ==
    /\ pc = "start"
    /\ R_align = Eye
    /\ scene_center = ZeroVec
    /\ points = <<>>
    /\ colors = <<>>
    /\ gui_points = 0
    /\ gui_frames = 0
    /\ gui_point_size = 0
    /\ point_cloud = [points |-> <<>>, colors |-> <<>>, point_size |-> 0]
    /\ frames = <<>>
    /\ img_ids = <<>>
    /\ need_update = FALSE
    /\ runs = 0
    /\ camera = InitialCamera
    /\ cb_pc = "idle"
    /\ cb_mask = <<>>
    /\ client_cloud = [points |-> <<>>, colors |-> <<>>, point_size |-> 0]
    /\ scene = {}
    /\ unread = FALSE

\* main() is not being followed
MainIdle ==
    /\ images = <<>>
    /\ points3d = <<>>
    /\ reorient_scene = FALSE
    /\ MainStart

(***************************************************************************)
(* Specifications.                                                         *)
(*   SpecRot    every call of rot_from_a_to_b on the pairs of RotPairs     *)
(*   SpecAlign  the set-up of main() on every scene of up to MaxImages     *)
(*              images                                                     *)
(*   SpecGeom   both of the above                                          *)
(*   Spec       main() with its callbacks and its loop, on scenes of two   *)
(*              kinds of camera                                            *)
(*   SpecCloud  the set-up and the point cloud's callbacks, with           *)
(*              gui_points.on_update step by step                          *)
(*   SpecLive   the main thread, which keeps running, and the Max frames   *)
(*              callback                                                   *)
(***************************************************************************)
RotInit ==
    /\ \E p \in RotPairs : rot_a = IntVec(p[1]) /\ rot_b = IntVec(p[2])
    /\ rot_pc = "call"
    /\ rot_R = Eye
    /\ MainIdle

RotNext == rot_call

SpecRot == RotInit /\ [][RotNext]_vars

AlignInit ==
    /\ RotIdle
    /\ \E n \in 1..MaxImages : \E s \in RotSeqs(n, 1..Len(CamToWorld)) :
          images = ImagesOf(s, 0)
    /\ points3d = PointsOf(NumPoints)
    /\ reorient_scene = TRUE
    /\ MainStart

AlignNext == load

SpecAlign == AlignInit /\ [][AlignNext]_vars

GeomInit == RotInit \/ AlignInit

GeomNext == rot_call \/ load

SpecGeom == GeomInit /\ [][GeomNext]_vars

Init ==
    /\ RotIdle
    /\ \E s \in RotSeqs(SceneImages, {2, 6}) : \E missing \in 0..1 :
          images = ImagesOf(s, missing)
    /\ points3d = PointsOf(NumPoints)
    /\ reorient_scene \in BOOLEAN
    /\ MainStart

Next ==
    \/ load
    \/ gui_points_update
    \/ gui_frames_update
    \/ gui_point_size_update
    \/ reset_up_click
    \/ frustum_click
    \/ loop_test
    \/ loop_clear
    \/ viz_remove
    \/ viz_select
    \/ viz_add

Spec == Init /\ [][Next]_vars

CloudNext ==
    \/ load
    \/ cb_mask_drawn
    \/ cb_points_set
    \/ cb_colors_set
    \/ cb_atomic_exit
    \/ gui_point_size_update

SpecCloud == Init /\ [][CloudNext]_vars

\* the steps of the main thread
MainThread ==
    \/ load
    \/ loop_test
    \/ loop_clear
    \/ viz_remove
    \/ viz_select
    \/ viz_add

\* the runs that are followed leave room for one that starts after now
RunToCome ==
    /\ pc = "test" => runs < MaxRuns
    /\ pc = "add" => runs + 1 < MaxRuns

\* gui_frames.on_update, as long as a run can follow it
gui_frames_update_served == RunToCome /\ gui_frames_update

LiveNext == MainThread \/ gui_frames_update_served

\* the main thread has a step to take: each of its steps but loop_test can
\* be taken wherever pc stands at it
MainCanStep ==
    \/ pc \in {"start", "clear", "remove", "select", "add"}
    \/ pc = "test" /\ need_update /\ runs < MaxRuns

\* a step of the main thread as pc shows it: the steps of MainThread, and
\* no other, change pc
MainMoves ==
    MainCanStep /\ \E q \in {"test", "clear", "remove", "select", "add"} : pc' = q

\* the main thread is not held up for ever: "while True" with a sleep of a
\* millisecond
SpecLive == Init /\ [][LiveNext]_vars /\ WF_pc(MainMoves)

(***************************************************************************)
(* Vocabulary of the properties.                                           *)
(***************************************************************************)
\* the tolerance 1e-6 of the testable properties
Tol == RFrac(1, 1000000)

IsZeroVec(x) == \A i \in Idx : x.v[i].k = "fin" /\ x.v[i].s = 0

\* |x - y| <= eps
Within(x, y, eps) == RLe(RAbs(RSub(x, y)), eps)

RClose(x, y) == Within(x, y, Tol)

VClose(x, y) == \A i \in Idx : RClose(Comp(x, i), Comp(y, i))

MClose(A, B) == \A i \in Idx : \A j \in Idx : RClose(A[i][j], B[i][j])

\* orthonormal with determinant +1
IsProperRotation(R) ==
    /\ MClose(MatMul(R, Transpose(R)), Eye)
    /\ RClose(Det(R), One)

\* b is a positive (negative) multiple of a, for a and b given by components
SameDirection(a, b) ==
    /\ IsZeroVec([v |-> CrossV(a.v, b.v), k |-> One])
    /\ DotV(a.v, b.v).s > 0

OppositeDirection(a, b) ==
    /\ IsZeroVec([v |-> CrossV(a.v, b.v), k |-> One])
    /\ DotV(a.v, b.v).s < 0

RotReturned == rot_pc = "returned"

NonZeroArgs == ~IsZeroVec(rot_a) /\ ~IsZeroVec(rot_b)

\* the unit vectors the arguments stand for
UnitA == Normalized(rot_a)

UnitB == Normalized(rot_b)

\* neither parallel nor antiparallel, with a dot product within 1e-7 of +-1
NearDegenerateArgs ==
    /\ ~SameDirection(rot_a, rot_b)
    /\ ~OppositeDirection(rot_a, rot_b)
    /\ Within(RAbs(Dot(UnitA, UnitB)), One, RFrac(1, 10000000))

\* the set-up of main() is done
Loaded == pc # "start"

\* the average of the cameras' world-space up vectors, before it is normalized
MeanUp == Mean(world_up_samples(images))

\* the up vectors cancel: their average has no length
UpsCancel == IsZeroVec(MeanUp)

\* |x - y|^2
DistSq(x, y) == Norm(VSub(x, y)).sq

\* every camera position and every point, each before and after the alignment
Moved ==
    {<<cam_positions(images)[i],
       MatVec(R_align, VSub(cam_positions(images)[i], scene_center))>> :
        i \in 1..Len(images)}
        \cup {<<points3d[i].xyz, points[i]>> : i \in 1..Len(points3d)}

(***************************************************************************)
(* Properties of rot_from_a_to_b, under SpecRot.                           *)
(***************************************************************************)
\* C1: for every pair of unit vectors a, b (pairs with a dot product close
\* to but not exactly +1 or -1 included), R = rot_from_a_to_b(a, b) has
\* R @ a equal to b within 1e-6.
C1_MapsAOntoB ==
    (RotReturned /\ NonZeroArgs) => VClose(MatVec(rot_R, UnitA), UnitB)

\* C3: rot_from_a_to_b raises InvalidInput when a or b has zero length; it
\* never returns a matrix for such input.
C3_ZeroLengthRaises ==
    (IsZeroVec(rot_a) \/ IsZeroVec(rot_b)) => ~RotReturned

\* C4: for every pair of non-zero vectors, in each of the three branches and
\* for near-degenerate pairs, the matrix returned is a proper rotation:
\* R @ R^T = I and det(R) = +1 within tolerance.
C4_ProperRotation ==
    (RotReturned /\ NonZeroArgs) => IsProperRotation(rot_R)

\* a near-degenerate pair has gone through the opposite branch
C4_NearOppositeReturned ==
    /\ RotReturned
    /\ NonZeroArgs
    /\ NearDegenerateArgs
    /\ rot_branch(rot_a, rot_b) = "opposite"

\* C5: for every unit vector a, R = rot_from_a_to_b(a, -a) has R @ a equal
\* to -a within 1e-6.
C5_OppositeMapsToNegation ==
    (RotReturned /\ NonZeroArgs /\ OppositeDirection(rot_a, rot_b))
        => VClose(MatVec(rot_R, UnitA), VScale(UnitA, RInt(-1)))

\* a call with b = -a has returned, for an a off the coordinate axes
C5_SlantedOppositeReturned ==
    /\ RotReturned
    /\ OppositeDirection(rot_a, rot_b)
    /\ \A i \in Idx : rot_a.v[i].s # 0

(***************************************************************************)
(* Properties of the set-up of main(), under SpecAlign and SpecGeom.       *)
(***************************************************************************)
\* C2: when the averaged up vector has no length (the up vectors cancel),
\* the set-up reports DegenerateAlignment to its caller: it does not go on
\* with an R_align made from that vector.
C2_DegenerateAlignmentReported ==
    (reorient_scene /\ UpsCancel) => ~Loaded

\* C6: for every unit vector a, rot_from_a_to_b(a, a) is the identity
\* matrix; so when the up vectors of the poses already average to target_up,
\* R_align is the identity.
C6_AlignedGivesIdentity ==
    /\ (RotReturned /\ SameDirection(rot_a, rot_b)) => rot_R = Eye
    /\ (Loaded /\ reorient_scene /\ SameDirection(MeanUp, target_up))
           => R_align = Eye

\* the set-up is done for three differently turned cameras whose up vectors
\* average to target_up
C6_UpsAverageToTarget ==
    /\ Loaded
    /\ reorient_scene
    /\ Len(images) = 3
    /\ images[1].R # images[2].R
    /\ images[2].R # images[3].R
    /\ SameDirection(MeanUp, target_up)

\* C7: for a non-empty set of poses whose up vectors do not cancel, R_align
\* maps the normalized average of the up vectors onto target_up = (0, 0, 1)
\* within 1e-6.
C7_AverageUpOntoTarget ==
    (Loaded /\ reorient_scene /\ ~UpsCancel)
        => VClose(MatVec(R_align, average_up_of(images)), target_up)

\* C9: the alignment keeps the distance between any two of the camera
\* positions and points, whatever R_align rot_from_a_to_b returned (the
\* squares of the distances are compared, within 1e-6).
C9_DistancesPreserved ==
    (Loaded /\ reorient_scene)
        => \A p \in Moved : \A q \in Moved :
              RClose(DistSq(p[2], q[2]), DistSq(p[1], q[1]))

(***************************************************************************)
(* Properties of main() with its callbacks and its loop, under Spec.       *)
(***************************************************************************)
\* C8: with reorientation enabled, every camera pose (R, t) shown is
\* (R_align @ R, R_align @ (t - scene_center)) and every point p is
\* R_align @ (p - scene_center), with the one R_align and the one
\* scene_center, the mean of the camera positions.
C8_OneTransformForAll ==
    (Loaded /\ reorient_scene) =>
        /\ scene_center = Mean(cam_positions(images))
        /\ \A i \in 1..Len(points3d) :
              points[i] = MatVec(R_align, VSub(points3d[i].xyz, scene_center))
        /\ \A k \in 1..Len(frames) :
              /\ frames[k].wxyz =
                    MatMul(R_align, SO3Inverse(ImageOfId(frames[k].img_id).R))
              /\ frames[k].position =
                    MatVec(R_align,
                           VSub(SE3Inverse(ImageOfId(frames[k].img_id).R,
                                           ImageOfId(frames[k].img_id).tvec).t,
                                scene_center))

\* two frames are shown in a scene that was turned and moved
C8_TwoFramesShown ==
    /\ reorient_scene
    /\ Len(frames) = 2
    /\ R_align # Eye
    /\ scene_center # ZeroVec

\* C10: once the set-up is done, no action changes R_align or scene_center:
\* not the slider updates, not the clicks, not a run of visualize_frames.
C10_AlignmentNeverChanged ==
    [][Loaded => (R_align' = R_align /\ scene_center' = scene_center)]_vars

\* every kind of later action has been taken in a scene that was turned
C10_EveryLaterActionTaken ==
    /\ reorient_scene
    /\ R_align # Eye
    /\ runs = MaxRuns
    /\ gui_points < Len(points3d)
    /\ gui_frames < Len(images)
    /\ gui_point_size # InitialPointSize
    /\ camera.up_direction # target_up
    /\ camera.position # ZeroVec

(***************************************************************************)
(* The axis of the opposite branch, under SpecRot.                         *)
(***************************************************************************)
\* a call has returned through the opposite branch
OppositeTaken ==
    RotReturned /\ NonZeroArgs /\ rot_branch(rot_a, rot_b) = "opposite"

\* the helper vector as the text gives it: world X, or world Y when
\* |a[0]| >= 0.9
HelperAsStated ==
    IF RLe(RFrac(9, 10), RAbs(Comp(UnitA, 1)))
    THEN IntVec(<<0, 1, 0>>)
    ELSE IntVec(<<1, 0, 0>>)

\* x and y lie on one line through the origin
Parallel(x, y) == IsZeroVec([v |-> CrossV(x.v, y.v), k |-> One])

\* x and y are at a right angle
Orthogonal(x, y) == DotV(x.v, y.v).s = 0 /\ ~HasNaN(x) /\ ~HasNaN(y)

\* tmp with its component along the unit vector a taken out
Projected(tmp, a) == VSub(tmp, VScale(Plain(a), Dot(tmp, a)))

\* the axis is a unit vector, made from a vector of non-zero length, at a
\* right angle to a
AxisIsValid(raw, a) ==
    /\ ~IsZeroVec(raw)
    /\ RClose(Norm(Normalized(raw)).sq, One)
    /\ Orthogonal(Normalized(raw), a)

\* C11: in the opposite branch the helper vector is world X, or world Y
\* when |a[0]| >= 0.9; the axis is the helper with its component along a
\* projected out, normalized; the helper is never parallel to a, the axis
\* has non-zero length before it is normalized, and it ends as a unit
\* vector orthogonal to a.
C11_AxisByProjection ==
    OppositeTaken =>
        /\ tmp_of(UnitA) = HelperAsStated
        /\ ~Parallel(HelperAsStated, UnitA)
        /\ AxisIsValid(axis_raw(UnitA), UnitA)
        /\ Parallel(axis_raw(UnitA), Projected(HelperAsStated, UnitA))

\* C11, as the code has it: the axis is the normalized cross product of a
\* and the helper, at a right angle to both; the rest as stated.
C11_AxisByCrossProduct ==
    OppositeTaken =>
        /\ tmp_of(UnitA) = HelperAsStated
        /\ ~Parallel(HelperAsStated, UnitA)
        /\ AxisIsValid(axis_raw(UnitA), UnitA)
        /\ Parallel(axis_raw(UnitA), Cross(UnitA, HelperAsStated))
        /\ Orthogonal(axis_raw(UnitA), HelperAsStated)

\* the opposite branch has been taken with world Y for helper, for an a off
\* the coordinate axes
C11_HelperYTaken ==
    /\ OppositeTaken
    /\ tmp_of(UnitA) = IntVec(<<0, 1, 0>>)
    /\ \A i \in Idx : rot_a.v[i].s # 0

(***************************************************************************)
(* Properties of the point cloud, under SpecCloud.                         *)
(***************************************************************************)
\* the cloud shows each of its positions with the color of the source point
\* of that position
PairedBySource(cloud) ==
    \A k \in 1..Len(cloud.points) : \E i \in 1..Len(points) :
        cloud.points[k] = points[i] /\ cloud.colors[k] = colors[i]

\* C12: whatever Max points updates have come, the point cloud the client
\* shows has as many positions as colors, each position with the color of
\* its own source point, the positions those of distinct source points and,
\* once the callback is through, gui_points.value of them; at no time does
\* the client have the new positions with the old colors.
C12_PositionsMatchColors ==
    Loaded =>
        /\ Len(client_cloud.points) = Len(client_cloud.colors)
        /\ PairedBySource(client_cloud)
        /\ \A k \in 1..Len(client_cloud.points) :
              \A l \in 1..Len(client_cloud.points) :
                  client_cloud.points[k] = client_cloud.points[l] => k = l
        /\ cb_pc = "idle" => Len(client_cloud.points) = gui_points

\* the callback is between its two assignments: the handle has new positions
\* and old colors, of another number
C12_BetweenAssignments ==
    /\ cb_pc = "points_set"
    /\ Len(point_cloud.points) # Len(point_cloud.colors)
    /\ client_cloud.points # point_cloud.points

(***************************************************************************)
(* Properties of main() without reorientation, under Spec.                 *)
(***************************************************************************)
\* the camera-to-world pose of the image a frame was made for
PoseOfFrame(frame) ==
    SE3Inverse(ImageOfId(frame.img_id).R, ImageOfId(frame.img_id).tvec)

\* C13: when reorient_scene is False, R_align is the identity, scene_center
\* is the zero vector, apply_RT returns its arguments as they are, every
\* frame is at the camera-to-world pose of its image, and the points are at
\* their COLMAP positions.
C13_NoReorientationLeavesPoses ==
    (Loaded /\ ~reorient_scene) =>
        /\ R_align = Eye
        /\ scene_center = ZeroVec
        /\ \A i \in 1..Len(points3d) : points[i] = points3d[i].xyz
        /\ \A i \in 1..Len(images) :
              apply_RT_to(SE3Inverse(images[i].R, images[i].tvec))
                  = SE3Inverse(images[i].R, images[i].tvec)
        /\ \A k \in 1..Len(frames) :
              /\ frames[k].wxyz = PoseOfFrame(frames[k]).R
              /\ frames[k].position = PoseOfFrame(frames[k]).t

\* without reorientation two frames are shown, of cameras that are turned
\* and off the origin
C13_TwoPlainFramesShown ==
    /\ ~reorient_scene
    /\ Len(frames) = 2
    /\ Len(points) = NumPoints
    /\ \A k \in 1..Len(frames) :
          frames[k].wxyz # Eye /\ frames[k].position # ZeroVec

(***************************************************************************)
(* Properties of the loop and the Max frames callback, under SpecLive.     *)
(***************************************************************************)
\* C14: no Max frames update is lost: whenever an update has come, a run of
\* visualize_frames reads gui_frames.value after it, however the callback
\* falls between the loop's test of need_update, its clearing and the run;
\* and visualize_frames runs once at startup.
C14_NoUpdateLost ==
    /\ unread ~> ~unread
    /\ <>(runs >= 1)

\* an update has come between the loop's test of need_update and its
\* clearing
C14_UpdateBetweenTestAndClear ==
    /\ unread
    /\ pc = "clear"
    /\ gui_frames # MinOf(Len(images), InitialMaxFrames)

(***************************************************************************)
(* Properties of the frames list, under Spec.                              *)
(***************************************************************************)
\* the step that ends a run of visualize_frames, and the step of line 184,
\* which reads the Max frames slider
RunCompleted == pc = "add" /\ pc' = "test"

SliderRead == pc = "select" /\ pc' = "add"

\* the ids among ids of the images whose file exists
OnDisk(ids) == {id \in Named([i \in 1..Len(ids) |-> [img_id |-> ids[i]]]) : ImageOfId(id).exists}

\* fs holds handles made in run number run only, of distinct image ids, and
\* they are the frames in the scene sc
FreshOnly(fs, sc, run) ==
    /\ \A k \in 1..Len(fs) : fs[k].run = run
    /\ \A k \in 1..Len(fs) : \A l \in 1..Len(fs) :
          fs[k].img_id = fs[l].img_id => k = l
    /\ sc = {fs[k] : k \in 1..Len(fs)}

\* the run that ends leaves one handle for each selected image whose file
\* exists
OnePerImageOnDisk ==
    /\ Named(frames') = OnDisk(img_ids)
    /\ Len(frames') = Cardinality(OnDisk(img_ids))

\* C15: after every completed run of visualize_frames, whatever Max frames
\* updates have come, the frames list holds only handles made in that run
\* (those of earlier runs are out of the scene and out of the list), one for
\* each selected image whose file exists, of distinct image ids, and at most
\* gui_frames.value of them.
C15_FramesOfLastRunOnly ==
    [][/\ (pc' \in {"test", "clear"} /\ runs' >= 1)
            => FreshOnly(frames', scene', runs')
       /\ RunCompleted
            => (OnePerImageOnDisk /\ Len(frames') <= gui_frames')]_vars

\* C15, with the number of handles held against the slider as the run read
\* it: line 184 selects at most gui_frames.value images, and the run leaves
\* at most as many handles as it selected; the rest as stated.
C15_FramesOfLastRunAsRead ==
    [][/\ (pc' \in {"test", "clear"} /\ runs' >= 1)
            => FreshOnly(frames', scene', runs')
       /\ SliderRead => Len(img_ids') <= gui_frames
       /\ RunCompleted
            => (OnePerImageOnDisk /\ Len(frames') <= Len(img_ids))]_vars

\* a later run has ended with more frames than the slider now allows: the
\* slider was lowered after the run had read it
C15_SliderLoweredDuringRun ==
    /\ pc = "test"
    /\ runs = MaxRuns
    /\ Len(frames) > gui_frames

====
